---- MODULE Spec2Model ----
(***************************************************************************)
(* ArchiveIterator of compress-tools (src/src/iterator.rs): the streaming  *)
(* iterator over an archive, its construction (from_read), its next()      *)
(* state machine and its teardown (close / Drop / free).                   *)
(*                                                                         *)
(* The decoding engine (libarchive, reached through crate::ffi) is the     *)
(* environment: every value it returns is chosen nondeterministically,     *)
(* and what it has reported so far is recorded in the variables archive,   *)
(* edata, eof and clean, which the iterator never reads.                   *)
(***************************************************************************)
EXTENDS Integers, Sequences, FiniteSets

\* ------------------------------------------------------------------ bounds
\* Calls of next() made by the caller on one iterator.
MaxNext == 6
\* Headers plus data blocks the engine delivers with ARCHIVE_OK.
MaxOk == 3
\* Bytes of a hole the engine may skip in front of a data block.
MaxGap == 1

\* Bits of la_int64_t / i64 / u64, scaled down: offsets and positions wrap
\* at 2^IntBits as they do at 2^64.
IntBits == 3
\* crate::READER_BUFFER_SIZE, the bytes of the pipe's buffer, scaled down.
READER_BUFFER_SIZE == 2

\* ------------------------------------------------------- engine vocabulary
\* Return codes of the engine (ffi::ARCHIVE_*), by name.
Codes ==
    {"ARCHIVE_OK", "ARCHIVE_EOF", "ARCHIVE_RETRY", "ARCHIVE_WARN",
     "ARCHIVE_FAILED", "ARCHIVE_FATAL"}

\* Entry path names as the engine reports them: C strings, here byte
\* sequences; 255 is a byte that no UTF-8 text contains.
RawNames == {<<97>>, <<255, 98>>}

\* The archive handle archive_read_new() may return.
Handles == {"null", "handle"}

\* The data a single archive_read_data_block() call may hand out: no byte,
\* one byte, several bytes; the byte 0 is what a hole decodes to.
BlockData == {<<>>, <<1>>, <<2, 1>>}

\* ------------------------------------------------------------------- state
VARIABLES
    pc,             \* the caller: "start", "live", "failed", "closed", "dropped", "crashed"
    archive_reader, \* ArchiveIterator.archive_reader: "none" before from_read
    in_file,        \* ArchiveIterator.in_file
    closed,         \* ArchiveIterator.closed
    error,          \* ArchiveIterator.error
    out,            \* what the calls of next() returned, in order
    ret,            \* what from_read / close returned to the caller
    calls,          \* the engine operations invoked, in order, with their handle
    failed,         \* engine: the setup / teardown operations that reported failure
    teardowns,      \* one record per run of free(): its result and engine calls
    archive,        \* engine: the entries and blocks it has delivered
    edata,          \* engine: an entry's data is being delivered
    eof,            \* engine: it has reported the end of the archive
    clean,          \* engine: no error reported and no pull it could not serve
    signal,         \* engine: the code it answered the last next() with, or "none"
    pipe,           \* the HeapReadSeekerPipe of _pipe: its state and its address
    client_data,    \* engine: the address registered by archive_read_open
    reader,         \* HeapReadSeekerPipe.reader: the source's position and length
    cb              \* the last run of a callback: its arguments and what it did

\* What the iterator, its caller and the engine session hold.
iterVars ==
    <<pc, archive_reader, in_file, closed, error, out, ret, calls, failed,
      teardowns, archive, edata, eof, clean, signal, pipe, client_data>>

\* What the callbacks work on.
pipeVars == <<reader, cb>>

vars == <<iterVars, pipeVars>>

\* ------------------------------------------------------- values and helpers
\* An item of ArchiveContents, or the None of Option<ArchiveContents>.
Ev(kind, val) == [kind |-> kind, val |-> val]
StartOfEntry(name) == Ev("StartOfEntry", name)
DataChunk(bytes) == Ev("DataChunk", bytes)
EndOfEntry == Ev("EndOfEntry", <<>>)
Err == Ev("Err", <<>>)
None == Ev("None", <<>>)

\* One invocation of an engine operation on a handle.
EngineCall(op, h) == [op |-> op, h |-> h]

\* The engine's convention for its setup and teardown operations: every code
\* but ARCHIVE_OK and ARCHIVE_WARN (done, with a warning) reports a failure.
EngineFailed(code) == code \notin {"ARCHIVE_OK", "ARCHIVE_WARN"}

\* crate::error::archive_result: the engine's return code as a Result.
archive_result(code) ==
    IF code \in {"ARCHIVE_OK", "ARCHIVE_WARN"} THEN "Ok" ELSE "Err"

\* CStr::to_string_lossy on a path name: ASCII bytes stand for themselves,
\* a byte that is not UTF-8 becomes U+FFFD.
to_string_lossy(raw) ==
    [i \in DOMAIN raw |-> IF raw[i] < 128 THEN raw[i] ELSE 65533]

\* Vec::write_all: the content is appended to the target.
write_all(target, content) == target \o content

\* The engine operations of calls[i] that reported failure, codes[i] being
\* the code calls[i] returned.
FailedOps(cs, codes) ==
    {cs[i].op : i \in {j \in DOMAIN cs : EngineFailed(codes[j])}}

\* ---------------------------------------------------------- the iterator
\* next_header taking the end of the archive for an error.
next_header_eof_as_err(code, raw) ==
    CASE code = "ARCHIVE_OK" -> StartOfEntry(to_string_lossy(raw))
      [] OTHER -> Err

\* next_header: the engine answered archive_read_next_header with code and,
\* for ARCHIVE_OK, an entry whose path name is raw.
next_header(code, raw) ==
    CASE code = "ARCHIVE_EOF" -> EndOfEntry
      [] code = "ARCHIVE_OK" -> StartOfEntry(to_string_lossy(raw))
      [] OTHER -> Err

\* next_data_chunk handing out its target without the copy.
next_data_chunk_no_copy(code, data, offset) ==
    CASE code = "ARCHIVE_EOF" -> EndOfEntry
      [] code = "ARCHIVE_OK" -> DataChunk(<<>>)
      [] OTHER -> Err

\* next_data_chunk: the engine answered archive_read_data_block with code
\* and, for ARCHIVE_OK, a buffer holding data at the given offset.
next_data_chunk(code, data, offset) ==
    CASE code = "ARCHIVE_EOF" -> EndOfEntry
      [] code = "ARCHIVE_OK" -> DataChunk(write_all(<<>>, data))
      [] OTHER -> Err

\* The match of next() with an Err that does not set error.
next_match_unlatched(inFile, item) ==
    CASE item.kind = "StartOfEntry" ->
           [in_file |-> TRUE, error |-> FALSE, ret |-> item]
      [] item.kind = "DataChunk" ->
           [in_file |-> inFile, error |-> FALSE, ret |-> item]
      [] item.kind = "EndOfEntry" /\ inFile ->
           [in_file |-> FALSE, error |-> FALSE, ret |-> item]
      [] item.kind = "EndOfEntry" /\ ~inFile ->
           [in_file |-> inFile, error |-> FALSE, ret |-> None]
      [] OTHER ->
           [in_file |-> inFile, error |-> FALSE, ret |-> item]

\* The match of next() with an EndOfEntry that leaves in_file set.
next_match_end_keeps_open(inFile, item) ==
    CASE item.kind = "StartOfEntry" ->
           [in_file |-> TRUE, error |-> FALSE, ret |-> item]
      [] item.kind = "DataChunk" ->
           [in_file |-> inFile, error |-> FALSE, ret |-> item]
      [] item.kind = "EndOfEntry" /\ inFile ->
           [in_file |-> inFile, error |-> FALSE, ret |-> item]
      [] item.kind = "EndOfEntry" /\ ~inFile ->
           [in_file |-> inFile, error |-> FALSE, ret |-> None]
      [] OTHER ->
           [in_file |-> inFile, error |-> TRUE, ret |-> item]

\* The match of next() returning every EndOfEntry, also outside an entry.
next_match_end_unguarded(inFile, item) ==
    CASE item.kind = "StartOfEntry" ->
           [in_file |-> TRUE, error |-> FALSE, ret |-> item]
      [] item.kind = "DataChunk" ->
           [in_file |-> inFile, error |-> FALSE, ret |-> item]
      [] item.kind = "EndOfEntry" ->
           [in_file |-> FALSE, error |-> FALSE, ret |-> item]
      [] OTHER ->
           [in_file |-> inFile, error |-> TRUE, ret |-> item]

\* The match of next() on the item the pull produced: the flags after the
\* call and what the call returns.
next_match(inFile, item) ==
    CASE item.kind = "StartOfEntry" ->
           [in_file |-> TRUE, error |-> FALSE, ret |-> item]
      [] item.kind = "DataChunk" ->
           [in_file |-> inFile, error |-> FALSE, ret |-> item]
      [] item.kind = "EndOfEntry" /\ inFile ->
           [in_file |-> FALSE, error |-> FALSE, ret |-> item]
      [] item.kind = "EndOfEntry" /\ ~inFile ->
           [in_file |-> inFile, error |-> FALSE, ret |-> None]
      [] OTHER ->
           [in_file |-> inFile, error |-> TRUE, ret |-> item]

\* free() without the test of closed.
free_unguarded(isClosed, h, c1, c2) ==
    LET k1 == EngineCall("archive_read_close", h)
        k2 == EngineCall("archive_read_free", h)
    IN  IF archive_result(c1) = "Err"
        THEN [closed |-> TRUE, res |-> "Err", calls |-> <<k1>>, codes |-> <<c1>>]
        ELSE [closed |-> TRUE, res |-> archive_result(c2),
              calls |-> <<k1, k2>>, codes |-> <<c1, c2>>]

\* free() that drops the result of archive_read_free.
free_release_unchecked(isClosed, h, c1, c2) ==
    LET k1 == EngineCall("archive_read_close", h)
        k2 == EngineCall("archive_read_free", h)
    IN  IF isClosed
        THEN [closed |-> TRUE, res |-> "Ok", calls |-> <<>>, codes |-> <<>>]
        ELSE IF archive_result(c1) = "Err"
        THEN [closed |-> TRUE, res |-> "Err", calls |-> <<k1>>, codes |-> <<c1>>]
        ELSE [closed |-> TRUE, res |-> "Ok",
              calls |-> <<k1, k2>>, codes |-> <<c1, c2>>]

\* free() asking for the release before the close.
free_release_first(isClosed, h, c1, c2) ==
    LET k1 == EngineCall("archive_read_close", h)
        k2 == EngineCall("archive_read_free", h)
    IN  IF isClosed
        THEN [closed |-> TRUE, res |-> "Ok", calls |-> <<>>, codes |-> <<>>]
        ELSE IF archive_result(c2) = "Err"
        THEN [closed |-> TRUE, res |-> "Err", calls |-> <<k2>>, codes |-> <<c2>>]
        ELSE [closed |-> TRUE, res |-> archive_result(c1),
              calls |-> <<k2, k1>>, codes |-> <<c2, c1>>]

\* free(): c1 and c2 are what archive_read_close and archive_read_free
\* return if they are called.
free(isClosed, h, c1, c2) ==
    LET k1 == EngineCall("archive_read_close", h)
        k2 == EngineCall("archive_read_free", h)
    IN  IF isClosed
        THEN [closed |-> TRUE, res |-> "Ok", calls |-> <<>>, codes |-> <<>>]
        ELSE IF archive_result(c1) = "Err"
        THEN [closed |-> TRUE, res |-> "Err", calls |-> <<k1>>, codes |-> <<c1>>]
        ELSE [closed |-> TRUE, res |-> archive_result(c2),
              calls |-> <<k1, k2>>, codes |-> <<c1, c2>>]

\* The closure of from_read that prepares and opens the session h: c1..c4
\* are what the four engine operations return if they are called, p is the
\* address of the pipe, which archive_read_open hands to the engine.
from_read_setup(h, p, c1, c2, c3, c4) ==
    LET k1 == EngineCall("archive_read_support_filter_all", h)
        k2 == EngineCall("archive_read_support_format_all", h)
        k3 == EngineCall("archive_read_set_seek_callback", h)
        k4 == EngineCall("archive_read_open", h)
    IN  IF archive_result(c1) = "Err"
        THEN [res |-> "Err", calls |-> <<k1>>, codes |-> <<c1>>,
              client_data |-> "none"]
        ELSE IF archive_result(c2) = "Err"
        THEN [res |-> "Err", calls |-> <<k1, k2>>, codes |-> <<c1, c2>>,
              client_data |-> "none"]
        ELSE IF archive_result(c3) = "Err"
        THEN [res |-> "Err", calls |-> <<k1, k2, k3>>, codes |-> <<c1, c2, c3>>,
              client_data |-> "none"]
        ELSE IF h = "null"
        THEN [res |-> "NullArchive", calls |-> <<k1, k2, k3>>,
              codes |-> <<c1, c2, c3>>, client_data |-> "none"]
        ELSE [res |-> archive_result(c4), calls |-> <<k1, k2, k3, k4>>,
              codes |-> <<c1, c2, c3, c4>>, client_data |-> p]

\* Box::new(HeapReadSeekerPipe { .. }): the pipe is put on the heap.
Box_new == [state |-> "boxed", addr |-> "heap"]

\* The iterator is moved (built from its parts, returned, passed to close):
\* its Box moves, the pipe the Box owns stays where it is.
move_iter(p) == p

\* The pipe once the iterator's fields have been dropped.
drop_pipe(p) == [p EXCEPT !.state = "released"]

\* The places of the log where the pipe is allocated and released.
PipeAlloc == [op |-> "Box::new", h |-> "pipe"]
PipeRelease == [op |-> "drop(_pipe)", h |-> "pipe"]

\* The record teardowns keeps of one run of free().
Teardown(fr) == [res |-> fr.res, n |-> Len(fr.calls)]

\* close(self): free() runs and its result is returned; self is then dropped,
\* which runs free() once more, on the same flags.
close(isClosed, h, c1, c2) ==
    LET f1 == free(isClosed, h, c1, c2)
        f2 == free(f1.closed, h, c1, c2)
    IN  [closed |-> f2.closed, ret |-> <<f1.res>>,
         calls |-> f1.calls \o f2.calls, codes |-> f1.codes \o f2.codes,
         log |-> f1.calls \o f2.calls \o <<PipeRelease>>,
         teardowns |-> <<Teardown(f1), Teardown(f2)>>]

\* A drop that releases the pipe before free() has run.
drop_pipe_first(isClosed, h, c1, c2) ==
    LET f1 == free(isClosed, h, c1, c2)
    IN  [closed |-> f1.closed, ret |-> <<>>,
         calls |-> f1.calls, codes |-> f1.codes,
         log |-> <<PipeRelease>> \o f1.calls,
         teardowns |-> <<Teardown(f1)>>]

\* Drop::drop: free() runs and its result is dropped; the fields of the
\* iterator, the pipe among them, are dropped after it.
drop(isClosed, h, c1, c2) ==
    LET f1 == free(isClosed, h, c1, c2)
    IN  [closed |-> f1.closed, ret |-> <<>>,
         calls |-> f1.calls, codes |-> f1.codes,
         log |-> f1.calls \o <<PipeRelease>>,
         teardowns |-> <<Teardown(f1)>>]

\* The pull of a next() that does not look at error.
next_pull_ignores_error(inFile, err) ==
    IF inFile THEN "data" ELSE "header"

\* The pull next() makes on the engine: none once error is set, a data block
\* inside an entry, a header otherwise.
next_pull(inFile, err) ==
    IF err THEN "none" ELSE IF inFile THEN "data" ELSE "header"

\* next(): ans is the engine's answer to the pull.
next(inFile, err, ans) ==
    IF err
    THEN [in_file |-> inFile, error |-> err, ret |-> None]
    ELSE next_match(inFile,
                    IF inFile
                    THEN next_data_chunk(ans.code, ans.data, ans.offset)
                    ELSE next_header(ans.code, ans.name))

\* ------------------------------------------------------------ the engine
Answer(code, name, data, offset) ==
    [code |-> code, name |-> name, data |-> data, offset |-> offset]

NoAnswer == Answer("none", <<>>, <<>>, 0)

RECURSIVE SumLen(_)
SumLen(entries) ==
    IF entries = <<>> THEN 0
    ELSE 1 + Len(entries[1].blocks) + SumLen(Tail(entries))

\* Headers and data blocks delivered so far.
OkCount == SumLen(archive)

\* Where the data delivered for the current entry ends.
EntryEnd ==
    IF archive = <<>> \/ archive[Len(archive)].blocks = <<>> THEN 0
    ELSE LET b == archive[Len(archive)].blocks[Len(archive[Len(archive)].blocks)]
         IN  b.offset + Len(b.data)

\* What archive_read_next_header may answer: an entry, while the engine has
\* one to deliver, or any other code.
HeaderAnswers ==
    {Answer("ARCHIVE_OK", r, <<>>, 0) : r \in {n \in RawNames : OkCount < MaxOk}}
        \cup {Answer(c, <<>>, <<>>, 0) : c \in Codes \ {"ARCHIVE_OK"}}

\* What archive_read_data_block may answer: a block of the entry lying at or
\* after the end of the previous one, or any other code.
DataAnswers ==
    {Answer("ARCHIVE_OK", <<>>, d, EntryEnd + g) :
        d \in {x \in BlockData : OkCount < MaxOk}, g \in 0..MaxGap}
        \cup {Answer(c, <<>>, <<>>, 0) : c \in Codes \ {"ARCHIVE_OK"}}

Answers(pull) ==
    CASE pull = "header" -> HeaderAnswers
      [] pull = "data" -> DataAnswers
      [] OTHER -> {NoAnswer}

PullOp(pull) ==
    IF pull = "header" THEN "archive_read_next_header" ELSE "archive_read_data_block"

\* The archive after the engine delivered a block of its last entry.
WithBlock(a, ans) ==
    IF a = <<>> THEN a
    ELSE [a EXCEPT ![Len(a)].blocks =
                Append(@, [offset |-> ans.offset, data |-> ans.data])]

\* The engine's record of what it delivered, after answering a pull.
EngineStep(pull, ans) ==
    CASE pull = "header" /\ ans.code = "ARCHIVE_OK" ->
           /\ archive' = Append(archive, [name |-> ans.name, blocks |-> <<>>])
           /\ edata' = TRUE
           /\ eof' = eof
           /\ clean' = (clean /\ ~eof)
      [] pull = "header" /\ ans.code = "ARCHIVE_EOF" ->
           /\ archive' = archive
           /\ edata' = FALSE
           /\ eof' = TRUE
           /\ clean' = (clean /\ ~eof)
      [] pull = "data" /\ ans.code = "ARCHIVE_OK" ->
           /\ archive' = WithBlock(archive, ans)
           /\ edata' = edata
           /\ eof' = eof
           /\ clean' = (clean /\ edata /\ ~eof)
      [] pull = "data" /\ ans.code = "ARCHIVE_EOF" ->
           /\ archive' = archive
           /\ edata' = FALSE
           /\ eof' = eof
           /\ clean' = (clean /\ edata /\ ~eof)
      [] pull = "none" ->
           UNCHANGED <<archive, edata, eof, clean>>
      [] OTHER ->
           /\ clean' = FALSE
           /\ UNCHANGED <<archive, edata, eof>>

\* ----------------------------------------------------------- the callbacks
\* The values of u64 are 0 .. U64 - 1, those of i64 are I64Min .. I64Max.
U64 == 2 ^ IntBits
I64Max == 2 ^ (IntBits - 1) - 1
I64Min == 0 - 2 ^ (IntBits - 1)

\* `x as u64` of an i64 and `x as i64` of a u64: the same bits.
as_u64(x) == x % U64
as_i64(x) == IF x > I64Max THEN x - U64 ELSE x

\* What one run of a callback was given and did: the source operations it
\* made (src_calls), the SeekFrom it passed (sought), whether the source
\* succeeded and with what value, the buffer address stored for the engine,
\* whether archive_set_error was called, the value returned, and how the
\* callback ended: "return", or a panic that leaves an extern "C" function,
\* which aborts the process or unwinds into the engine.
Callback(fn, whence, offset, src_calls, sought, src_ok, src_val, bufptr, set_error, result, exit) ==
    [fn |-> fn, whence |-> whence, offset |-> offset, src_calls |-> src_calls,
     sought |-> sought, src_ok |-> src_ok, src_val |-> src_val,
     bufptr |-> bufptr, set_error |-> set_error, ret |-> result, exit |-> exit]

NoSeek == [from |-> "none", off |-> 0]

\* No callback has run.
NoCallback ==
    Callback("none", 0, 0, 0, NoSeek, TRUE, 0, "none", FALSE, 0, "return")

\* The match on whence of the seek callback: the SeekFrom, or NoSeek for a
\* whence that is not 0, 1 or 2.
seek_from(whence, offset) ==
    CASE whence = 0 -> [from |-> "Start", off |-> as_u64(offset)]
      [] whence = 1 -> [from |-> "Current", off |-> offset]
      [] whence = 2 -> [from |-> "End", off |-> offset]
      [] OTHER -> NoSeek

\* Seek::seek of the source, a std::io::Cursor: a seek from the start goes
\* to any u64 position, a relative seek fails when it leaves the u64 range;
\* io_fails: the source reports an I/O error instead.
reader_seek(rd, sf, io_fails) ==
    LET target == CASE sf.from = "Start" -> sf.off
                    [] sf.from = "Current" -> rd.pos + sf.off
                    [] OTHER -> rd.len + sf.off
    IN  IF io_fails \/ target < 0 \/ target >= U64
        THEN [ok |-> FALSE, val |-> 0, reader |-> rd]
        ELSE [ok |-> TRUE, val |-> target, reader |-> [rd EXCEPT !.pos = target]]

\* libarchive_heap_seek_callback on the pipe's reader rd.
libarchive_heap_seek_callback(rd, offset, whence, io_fails) ==
    LET sf == seek_from(whence, offset)
        sk == reader_seek(rd, sf, io_fails)
    IN  IF sf = NoSeek
        THEN [reader |-> rd,
              cb |-> Callback("seek", whence, offset, 0, NoSeek, TRUE, 0, "none",
                              FALSE, -1, "return")]
        ELSE [reader |-> sk.reader,
              cb |-> Callback("seek", whence, offset, 1, sf, sk.ok, sk.val, "none",
                              FALSE, IF sk.ok THEN as_i64(sk.val) ELSE -1,
                              "return")]

\* The bytes Read::read may report for a buffer of cap bytes: 0 at the end of
\* the source, else at least one and no more than the buffer holds.
ReadSizes(rd, cap) ==
    IF rd.pos >= rd.len THEN {0}
    ELSE {n \in 1..cap : n <= rd.len - rd.pos}

\* The errors Read::read may report: their message has an interior NUL byte
\* or not, they carry an OS error code or not.
ReadErrors == [nul : BOOLEAN, os : BOOLEAN]

\* CString::new: it fails on a text with an interior NUL byte.
CString_new(e) == IF e.nul THEN "Err" ELSE "Ok"

\* libarchive_heap_seekableread_callback on the pipe's reader rd: the source
\* read n bytes, or failed with e; exit is how a panic ends.
libarchive_heap_seekableread_callback(rd, ok, n, e, exit) ==
    IF ok
    THEN [reader |-> [rd EXCEPT !.pos = rd.pos + n],
          cb |-> Callback("read", 0, 0, 1, NoSeek, TRUE, n, "pipe.buffer", FALSE,
                          n, "return")]
    ELSE IF CString_new(e) = "Err"
    THEN [reader |-> rd,
          cb |-> Callback("read", 0, 0, 1, NoSeek, FALSE, 0, "pipe.buffer", FALSE,
                          0, exit)]
    ELSE [reader |-> rd,
          cb |-> Callback("read", 0, 0, 1, NoSeek, FALSE, 0, "pipe.buffer", TRUE,
                          -1, "return")]

\* ---------------------------------------------------------------- actions

Init ==
    /\ pc = "start"
    /\ archive_reader = "none"
    /\ in_file = FALSE
    /\ closed = FALSE
    /\ error = FALSE
    /\ out = <<>>
    /\ ret = <<>>
    /\ calls = <<>>
    /\ failed = {}
    /\ teardowns = <<>>
    /\ archive = <<>>
    /\ edata = FALSE
    /\ eof = FALSE
    /\ clean = TRUE
    /\ signal = "none"
    /\ pipe = [state |-> "none", addr |-> "none"]
    /\ client_data = "none"
    /\ reader = [pos |-> 0, len |-> 0]
    /\ cb = NoCallback

\* ArchiveIterator::from_read: the pipe is boxed, the session is created and
\* set up; when the setup fails the iterator built around the session is
\* dropped before the error is returned. What the engine does with a null
\* session is not defined: it returns some code, or the process dies in the
\* first call.
CallFromRead ==
    /\ pc = "start"
    /\ \E h \in Handles, c1, c2, c3, c4, d1, d2 \in Codes, dies \in BOOLEAN :
         LET su == from_read_setup(h, Box_new.addr, c1, c2, c3, c4)
             dr == drop(FALSE, h, d1, d2)
         IN  /\ archive_reader' = h
             /\ in_file' = FALSE
             /\ error' = FALSE
             /\ IF h = "null" /\ dies
                THEN /\ pc' = "crashed"
                     /\ ret' = <<>>
                     /\ closed' = FALSE
                     /\ calls' = <<PipeAlloc, su.calls[1]>>
                     /\ failed' = {}
                     /\ teardowns' = <<>>
                     /\ pipe' = Box_new
                     /\ client_data' = "none"
                ELSE IF su.res = "Ok"
                THEN /\ pc' = "live"
                     /\ ret' = <<su.res>>
                     /\ closed' = FALSE
                     /\ calls' = <<PipeAlloc>> \o su.calls
                     /\ failed' = FailedOps(su.calls, su.codes)
                     /\ teardowns' = <<>>
                     /\ pipe' = move_iter(move_iter(Box_new))
                     /\ client_data' = su.client_data
                ELSE /\ pc' = "failed"
                     /\ ret' = <<su.res>>
                     /\ closed' = dr.closed
                     /\ calls' = <<PipeAlloc>> \o su.calls \o dr.log
                     /\ failed' = FailedOps(su.calls \o dr.calls, su.codes \o dr.codes)
                     /\ teardowns' = dr.teardowns
                     /\ pipe' = drop_pipe(move_iter(Box_new))
                     /\ client_data' = su.client_data
    /\ UNCHANGED <<out, archive, edata, eof, clean, signal>>
    /\ UNCHANGED pipeVars

\* Iterator::next on a live iterator that was called fewer than cap times.
CallNextUpTo(cap) ==
    /\ pc = "live"
    /\ Len(out) < cap
    /\ LET pull == next_pull(in_file, error)
       IN  \E ans \in Answers(pull) :
             LET r == next(in_file, error, ans)
             IN  /\ in_file' = r.in_file
                 /\ error' = r.error
                 /\ out' = Append(out, r.ret)
                 /\ calls' = IF pull = "none" THEN calls
                             ELSE Append(calls, EngineCall(PullOp(pull), archive_reader))
                 /\ signal' = ans.code
                 /\ EngineStep(pull, ans)
    /\ UNCHANGED <<pc, archive_reader, closed, ret, failed, teardowns, pipe, client_data>>
    /\ UNCHANGED pipeVars

\* Iterator::next, called at any time on a live iterator.
CallNext == CallNextUpTo(MaxNext)

\* ArchiveIterator::close on a live iterator.
CallClose ==
    /\ pc = "live"
    /\ \E c1, c2 \in Codes :
         LET r == close(closed, archive_reader, c1, c2)
         IN  /\ pc' = "closed"
             /\ closed' = r.closed
             /\ ret' = ret \o r.ret
             /\ calls' = calls \o r.log
             /\ failed' = failed \cup FailedOps(r.calls, r.codes)
             /\ teardowns' = teardowns \o r.teardowns
             /\ pipe' = drop_pipe(move_iter(pipe))
    /\ UNCHANGED <<archive_reader, in_file, error, out, archive, edata, eof, clean,
                   signal, client_data>>
    /\ UNCHANGED pipeVars

\* A live iterator goes out of scope.
DropIterator ==
    /\ pc = "live"
    /\ \E c1, c2 \in Codes :
         LET r == drop(closed, archive_reader, c1, c2)
         IN  /\ pc' = "dropped"
             /\ closed' = r.closed
             /\ ret' = ret \o r.ret
             /\ calls' = calls \o r.log
             /\ failed' = failed \cup FailedOps(r.calls, r.codes)
             /\ teardowns' = teardowns \o r.teardowns
             /\ pipe' = drop_pipe(pipe)
    /\ UNCHANGED <<archive_reader, in_file, error, out, archive, edata, eof, clean,
                   signal, client_data>>
    /\ UNCHANGED pipeVars

Next ==
    \/ CallFromRead
    \/ CallNext
    \/ CallClose
    \/ DropIterator

Spec == Init /\ [][Next]_vars

\* The whence codes the engine may pass: SEEK_SET, SEEK_CUR, SEEK_END and
\* codes that are none of them.
Whences == -1..3

\* A live iterator over a source of any length, before any callback.
PipeInit ==
    /\ pc = "live"
    /\ archive_reader = "handle"
    /\ in_file = FALSE
    /\ closed = FALSE
    /\ error = FALSE
    /\ out = <<>>
    /\ ret = <<"Ok">>
    /\ calls = <<>>
    /\ failed = {}
    /\ teardowns = <<>>
    /\ archive = <<>>
    /\ edata = FALSE
    /\ eof = FALSE
    /\ clean = TRUE
    /\ signal = "none"
    /\ pipe = Box_new
    /\ client_data = Box_new.addr
    /\ reader \in [pos : {0}, len : 0..(U64 - 1)]
    /\ cb = NoCallback

\* The engine calls the seek callback with the registered pipe.
SeekCallback ==
    /\ pipe.state = "boxed"
    /\ client_data = pipe.addr
    /\ cb.exit = "return"
    /\ \E offset \in I64Min..I64Max, whence \in Whences, io_fails \in BOOLEAN :
         LET r == libarchive_heap_seek_callback(reader, offset, whence, io_fails)
         IN  /\ reader' = r.reader
             /\ cb' = r.cb
    /\ UNCHANGED iterVars

\* The engine calls the read callback with the registered pipe.
ReadCallback ==
    /\ pipe.state = "boxed"
    /\ client_data = pipe.addr
    /\ cb.exit = "return"
    /\ \/ \E n \in ReadSizes(reader, READER_BUFFER_SIZE) :
            LET r == libarchive_heap_seekableread_callback(
                         reader, TRUE, n, [nul |-> FALSE, os |-> FALSE], "return")
            IN  /\ reader' = r.reader
                /\ cb' = r.cb
       \/ \E e \in ReadErrors, exit \in {"abort", "unwind"} :
            LET r == libarchive_heap_seekableread_callback(reader, FALSE, 0, e, exit)
            IN  /\ reader' = r.reader
                /\ cb' = r.cb
    /\ UNCHANGED iterVars

PipeNext ==
    \/ SeekCallback
    \/ ReadCallback

\* The callbacks, called by the engine in any order.
PipeSpec == PipeInit /\ [][PipeNext]_vars

\* The calls of next() it takes at most to exhaust an iterator whose engine
\* delivers MaxOk headers and blocks: every entry is opened and closed, then
\* comes an Err and the exhaustion after it.
ExhaustCap == 2 * MaxOk + 2

\* A caller that goes on calling next().
KeepCallingNext == CallNextUpTo(ExhaustCap)

LiveNext ==
    \/ CallFromRead
    \/ KeepCallingNext

\* The caller of a `for` loop: it opens the iterator and calls next() as long
\* as it can.
LiveSpec == Init /\ [][LiveNext]_vars /\ WF_vars(KeepCallingNext)

\* ------------------------------------------------------- reading histories
\* The events among the results of next(): everything but None.
Events(s) == SelectSeq(s, LAMBDA e : e.kind # "None")

Last(s) == s[Len(s)]
Front(s) == SubSeq(s, 1, Len(s) - 1)

\* Positions of s that open or close an entry.
Marks(s) == {i \in DOMAIN s : s[i].kind \in {"StartOfEntry", "EndOfEntry"}}

\* An entry is open after s: a StartOfEntry was emitted and not yet closed.
IsOpen(s) ==
    /\ Marks(s) # {}
    /\ s[CHOOSE i \in Marks(s) : \A j \in Marks(s) : j <= i].kind = "StartOfEntry"

\* s holds entry events only, each emitted where the framing allows it.
Framed(s) ==
    \A i \in DOMAIN s :
        /\ s[i].kind \in {"StartOfEntry", "DataChunk", "EndOfEntry"}
        /\ s[i].kind = "StartOfEntry" => ~IsOpen(SubSeq(s, 1, i - 1))
        /\ s[i].kind \in {"DataChunk", "EndOfEntry"} => IsOpen(SubSeq(s, 1, i - 1))

\* s without the Err it may end with.
Body(s) == IF s # <<>> /\ Last(s).kind = "Err" THEN Front(s) ELSE s

Count(op) == Cardinality({i \in DOMAIN calls : calls[i].op = op})

SetupOps ==
    {"archive_read_support_filter_all", "archive_read_support_format_all",
     "archive_read_set_seek_callback", "archive_read_open"}

TeardownOps == {"archive_read_close", "archive_read_free"}

\* The events a group of blocks is delivered as.
RECURSIVE ChunksOf(_)
ChunksOf(blocks) ==
    IF blocks = <<>> THEN <<>>
    ELSE <<DataChunk(blocks[1].data)>> \o ChunksOf(Tail(blocks))

\* The events of the entries the engine delivered; open: the last entry's
\* data is still being delivered.
RECURSIVE GroupsOf(_, _)
GroupsOf(entries, open) ==
    IF entries = <<>> THEN <<>>
    ELSE <<StartOfEntry(to_string_lossy(entries[1].name))>>
            \o ChunksOf(entries[1].blocks)
            \o (IF open /\ Len(entries) = 1 THEN <<>> ELSE <<EndOfEntry>>)
            \o GroupsOf(Tail(entries), open)

\* The decoded content of an entry delivered as blocks, from position pos
\* on: each block lies at its offset, the bytes no block covers are zero.
RECURSIVE Decoded(_, _)
Decoded(blocks, pos) ==
    IF blocks = <<>> THEN <<>>
    ELSE [i \in 1..(blocks[1].offset - pos) |-> 0] \o blocks[1].data
            \o Decoded(Tail(blocks), blocks[1].offset + Len(blocks[1].data))

\* The payloads of the DataChunk events of s, concatenated.
RECURSIVE Payload(_)
Payload(s) ==
    IF s = <<>> THEN <<>>
    ELSE (IF s[1].kind = "DataChunk" THEN s[1].val ELSE <<>>) \o Payload(Tail(s))

\* The events of the last group of s: from its last StartOfEntry on.
LastGroup(s) ==
    LET starts == {i \in DOMAIN s : s[i].kind = "StartOfEntry"}
    IN  IF starts = {} THEN <<>>
        ELSE SubSeq(s, CHOOSE i \in starts : \A j \in starts : j <= i, Len(s))

\* ------------------------------------------------------------------ claims
\* C1: once next() has returned an Err, every later call of next() returns
\* nothing, whatever the engine would answer; an Err emitted inside an open
\* entry is followed by no EndOfEntry or other event.
C1_NothingAfterErr ==
    \A i \in DOMAIN out :
        out[i].kind = "Err" => \A j \in (i + 1)..Len(out) : out[j] = None

C1_Witness ==
    /\ in_file
    /\ Len(out) >= 4
    /\ out[Len(out) - 2].kind = "Err"
    /\ out[Len(out) - 1] = None
    /\ out[Len(out)] = None

\* C2: once next() has returned nothing because the engine reported the end
\* of the archive, every later call of next() returns nothing too.
C2_ExhaustionIsTerminal ==
    \A i \in DOMAIN out :
        out[i] = None => \A j \in (i + 1)..Len(out) : out[j] = None

\* C3: every DataChunk and EndOfEntry is emitted while an entry is open,
\* every StartOfEntry while none is, and in_file is true exactly when an
\* entry is open.
C3_Framing ==
    /\ Framed(SelectSeq(out, LAMBDA e : e.kind \notin {"None", "Err"}))
    /\ \A i \in DOMAIN out :
          LET before == SubSeq(out, 1, i - 1)
          IN  /\ out[i].kind = "StartOfEntry" => ~IsOpen(before)
              /\ out[i].kind \in {"DataChunk", "EndOfEntry"} => IsOpen(before)
    /\ in_file = IsOpen(out)

C3_Witness ==
    /\ in_file
    /\ error
    /\ \E i, j, k \in DOMAIN out :
          /\ i < j /\ j < k
          /\ out[i].kind = "DataChunk"
          /\ out[j].kind = "EndOfEntry"
          /\ out[k].kind = "StartOfEntry"

\* C4: while the engine reports no error, the results of next() are the
\* groups (StartOfEntry(name), DataChunk*, EndOfEntry) of the entries the
\* engine delivered, in its order and with its names and blocks, the last
\* group unfinished while its entry is being delivered, and followed by
\* nothing but the exhaustion once the engine reported the end of the archive.
C4_GroupsOfArchive ==
    clean =>
        out = GroupsOf(archive, edata) \o (IF eof THEN <<None>> ELSE <<>>)

C4_Witness ==
    /\ clean
    /\ eof
    /\ Len(archive) = 2
    /\ archive[1].blocks # <<>>
    /\ archive[1].name # to_string_lossy(archive[1].name)

\* C5 as stated: at exhaustion the events are complete groups, optionally
\* followed by a single Err.
C5_CompleteGroupsThenErr ==
    (out # <<>> /\ Last(out) = None) =>
        /\ Framed(Body(Events(out)))
        /\ ~IsOpen(Body(Events(out)))

\* C5 as amended: at exhaustion the events are complete groups, optionally
\* followed by a single Err, and the only StartOfEntry that no EndOfEntry
\* terminates is that of the entry the Err interrupted.
C5_GroupsThenErr ==
    (out # <<>> /\ Last(out) = None) =>
        /\ Framed(Body(Events(out)))
        /\ IsOpen(Body(Events(out))) => Last(Events(out)).kind = "Err"

C5_Witness ==
    /\ Len(out) >= 5
    /\ Last(out) = None
    /\ out[Len(out) - 1].kind = "Err"
    /\ out[Len(out) - 2].kind = "StartOfEntry"
    /\ out[Len(out) - 3].kind = "EndOfEntry"

\* C6: the engine's close-stream and release-session operations are each
\* invoked at most once on an iterator, and every run of the teardown after
\* the first returns success without calling the engine.
C6_TeardownOnce ==
    /\ Count("archive_read_close") <= 1
    /\ Count("archive_read_free") <= 1
    /\ \A i \in 2..Len(teardowns) : teardowns[i] = [res |-> "Ok", n |-> 0]

C6_Witness ==
    /\ pc = "closed"
    /\ Len(teardowns) = 2
    /\ teardowns[1].n = 2
    /\ Count("archive_read_free") = 1

\* C7: once an iterator with a session is destroyed, by close(), by being
\* dropped or by a failed from_read, the engine's release-session operation
\* has been invoked exactly once, whatever the teardown steps returned.
C7_ReleasedExactlyOnce ==
    (pc \in {"closed", "dropped", "failed"} /\ archive_reader = "handle") =>
        Count("archive_read_free") = 1

\* C8: when a setup step of from_read fails on a created session, from_read
\* returns an error and the session has been closed and released.
C8_SetupFailureTornDown ==
    (pc = "failed" /\ archive_reader = "handle" /\ failed \cap SetupOps # {}) =>
        /\ ret # <<"Ok">>
        /\ Count("archive_read_close") = 1
        /\ Count("archive_read_free") = 1

\* C9: close() on an iterator not yet torn down returns an error exactly
\* when the close-stream step or the release-session step failed; nothing is
\* returned to the caller when the iterator is dropped.
C9_CloseReportsFailure ==
    /\ pc = "closed" =>
          /\ Len(ret) = 2
          /\ (ret[2] = "Err") <=> (failed \cap TeardownOps # {})
          /\ (ret[2] = "Ok") <=> (failed \cap TeardownOps = {})
    /\ pc = "dropped" => ret = <<"Ok">>

C9_Witness ==
    /\ pc = "closed"
    /\ ret = <<"Ok", "Err">>
    /\ failed = {"archive_read_free"}

\* C10: when an entry has been read up to its EndOfEntry, the payloads of
\* its DataChunk events, concatenated, are the entry's decoded content.
C10_ChunksAreContent ==
    (clean /\ out # <<>> /\ Last(out).kind = "EndOfEntry") =>
        Payload(LastGroup(out)) = Decoded(archive[Len(archive)].blocks, 0)

\* The engine operations among the entries of the log.
IsEngineCall(c) == c.h # "pipe"

\* An Err is among the results of next().
HasErr(s) == \E i \in DOMAIN s : s[i].kind = "Err"

\* The step of the next() state machine: state is "Header" or "InEntry",
\* code is the engine's answer; what is returned and the flags afterwards.
TableStep(state, code) ==
    CASE state = "Header" /\ code = "ARCHIVE_OK" ->
           [ev |-> "StartOfEntry", in_file |-> TRUE, error |-> FALSE]
      [] state = "Header" /\ code = "ARCHIVE_EOF" ->
           [ev |-> "None", in_file |-> FALSE, error |-> FALSE]
      [] state = "Header" ->
           [ev |-> "Err", in_file |-> FALSE, error |-> TRUE]
      [] state = "InEntry" /\ code = "ARCHIVE_OK" ->
           [ev |-> "DataChunk", in_file |-> TRUE, error |-> FALSE]
      [] state = "InEntry" /\ code = "ARCHIVE_EOF" ->
           [ev |-> "EndOfEntry", in_file |-> FALSE, error |-> FALSE]
      [] OTHER ->
           [ev |-> "Err", in_file |-> TRUE, error |-> TRUE]

\* C13: when the session archive_read_new returned is null, from_read fails
\* with Error::NullArchive and with nothing else.
C13_NullGivesNullArchive ==
    (pc # "start" /\ archive_reader = "null") =>
        (pc = "failed" /\ ret = <<"NullArchive">>)

\* C15: while no Err and no end of the archive has been seen, a call of
\* next() is one step of the Header / InEntry table, Header being in_file
\* false and InEntry in_file true: the event, in_file and error are the
\* table's, a StartOfEntry carries the entry's name, nothing else changes.
C15_TableStep ==
    [][(out' # out /\ ~HasErr(out) /\ ~eof) =>
          LET t == TableStep(IF in_file THEN "InEntry" ELSE "Header", signal')
          IN  /\ out' = Append(out, Last(out'))
              /\ Last(out').kind = t.ev
              /\ in_file' = t.in_file
              /\ error' = t.error
              /\ closed' = closed
              /\ t.ev = "StartOfEntry" =>
                    Last(out').val = to_string_lossy(Last(archive').name)
              /\ t.ev = "DataChunk" =>
                    Last(out').val = Last(Last(archive').blocks).data]_vars

C15_Witness ==
    /\ out # <<>>
    /\ ~HasErr(out)
    /\ signal = "ARCHIVE_EOF"
    /\ Last(out).kind = "EndOfEntry"
    /\ ~in_file
    /\ Len(archive) = 2

\* C16: the engine is asked to release a session only after it was asked to
\* close that session's stream, and a teardown that calls the engine starts
\* with the close.
C16_CloseBeforeRelease ==
    /\ \A i \in DOMAIN calls :
          calls[i].op = "archive_read_free" =>
              \E j \in 1..(i - 1) :
                  /\ calls[j].op = "archive_read_close"
                  /\ calls[j].h = calls[i].h
    /\ \A i \in DOMAIN calls :
          calls[i].op \in TeardownOps =>
              \A j \in 1..(i - 1) :
                  calls[j].op \in TeardownOps => calls[j].op = "archive_read_close"

C16_Witness ==
    /\ pc = "dropped"
    /\ Count("archive_read_close") = 1
    /\ Count("archive_read_free") = 1

\* C17: the pipe registered with the engine stays boxed at the registered
\* address while the iterator lives, and on every path it is released only
\* after the teardown has run: no engine operation follows its release.
C17_PipeOutlivesSession ==
    /\ pc = "live" => (pipe.state = "boxed" /\ client_data = pipe.addr)
    /\ client_data # "none" => client_data = pipe.addr
    /\ \A i, j \in DOMAIN calls :
          /\ (calls[i] = PipeRelease /\ IsEngineCall(calls[j])) => j < i
          /\ (calls[i] = PipeAlloc /\ IsEngineCall(calls[j])) => i < j
    /\ pipe.state = "released" <=> (\E i \in DOMAIN calls : calls[i] = PipeRelease)
    /\ pipe.state = "released" => (closed /\ teardowns # <<>>)

C17_Witness ==
    /\ pc = "closed"
    /\ pipe.state = "released"
    /\ client_data = "heap"
    /\ Count("archive_read_close") = 1
    /\ Count("archive_read_data_block") >= 1

\* C18: a call of next() returns one result and pulls the engine at most
\* once: a header when no entry is open and no Err was emitted, a data block
\* when an entry is open and no Err was emitted, nothing after an Err.
C18_OnePullPerNext ==
    [][out' # out =>
          /\ Len(out') = Len(out) + 1
          /\ IF HasErr(out)
             THEN calls' = calls
             ELSE IF IsOpen(out)
             THEN calls' = Append(calls, EngineCall("archive_read_data_block",
                                                     archive_reader))
             ELSE calls' = Append(calls, EngineCall("archive_read_next_header",
                                                     archive_reader))]_vars

C18_Witness ==
    /\ Len(out) >= 4
    /\ Last(out) = None
    /\ HasErr(out)
    /\ Count("archive_read_next_header") = 1
    /\ Count("archive_read_data_block") = Len(out) - 3

\* C20: no engine operation is invoked on a null session.
C20_NoCallOnNull ==
    \A i \in DOMAIN calls : calls[i].h # "null"

\* C14: a caller that keeps calling next() on an archive of finitely many
\* entries and blocks eventually gets nothing: iteration ends.
C14_EventuallyExhausted ==
    (pc = "live") ~> (\E i \in DOMAIN out : out[i] = None)

C14_Witness ==
    /\ pc = "live"
    /\ Len(out) = ExhaustCap
    /\ Last(out) = None
    /\ \A i \in 1..(Len(out) - 1) : out[i] # None

\* C11: the seek callback seeks the source from the start, the current
\* position or the end for whence 0, 1, 2, with the offset it was given, and
\* returns the position the source reports, or -1 when the source's seek
\* fails; for any other whence it returns -1 and does not seek.
C11_SeekMapping ==
    cb.fn = "seek" =>
        IF cb.whence \in {0, 1, 2}
        THEN /\ cb.src_calls = 1
             /\ cb.sought.from = (CASE cb.whence = 0 -> "Start"
                                    [] cb.whence = 1 -> "Current"
                                    [] OTHER -> "End")
             /\ cb.sought.off = cb.offset
             /\ cb.src_ok => cb.ret = cb.src_val
             /\ ~cb.src_ok => cb.ret = -1
        ELSE /\ cb.src_calls = 0
             /\ cb.ret = -1

\* C12: the read callback reads the source once into the pipe's buffer and
\* hands the engine that buffer; it returns the bytes read, at most the
\* buffer's capacity; when the read fails it records the error with the
\* engine and returns -1, and nothing but a return leaves the callback.
C12_ReadCallback ==
    cb.fn = "read" =>
        /\ cb.src_calls = 1
        /\ cb.bufptr = "pipe.buffer"
        /\ cb.exit = "return"
        /\ cb.src_ok =>
              (cb.ret = cb.src_val /\ cb.ret >= 0 /\ cb.ret <= READER_BUFFER_SIZE)
        /\ ~cb.src_ok => (cb.set_error /\ cb.ret = -1)

\* C19: the seek callback returns a negative value only for a whence it does
\* not know or a seek the source failed, and a negative offset from the
\* start is never a successful seek.
C19_NegativeOnlyOnFailure ==
    cb.fn = "seek" =>
        /\ cb.ret < 0 => (cb.whence \notin {0, 1, 2} \/ ~cb.src_ok)
        /\ (cb.whence = 0 /\ cb.offset < 0) => ~cb.src_ok

====
